---- MODULE Spec2Model ----
(***************************************************************************)
(* CPU vs ReRAM in-memory-computing (IMC) inference benchmark.             *)
(*                                                                         *)
(*   sw/hello.c      device software: cpu_mv_u8, cpu_mv_i8, argmax,        *)
(*                   infer_cpu, imc_tile_mac, imc_layer_execution,         *)
(*                   infer_imc, main                                       *)
(*   sw/syscalls.c   _write: one store to the UART address per byte        *)
(*   testbench.cpp   observer: UART sampling loop, marker scan, calc_diff  *)
(*                                                                         *)
(* Three specifications share the variables:                               *)
(*   Spec          main() of hello.c running infer_cpu and infer_imc on    *)
(*                 every test image, the IMC path at register level        *)
(*   SpecArgmax    argmax() applied to drawn score vectors                 *)
(*   SpecObserver  the testbench loop sampling a device byte stream        *)
(*                                                                         *)
(* Number widths.  TLC integers are 32-bit signed.  Every int32_t/uint32_t *)
(* scalar of hello.c stays far below 2^31 in magnitude for the sizes       *)
(* modelled (the tile-scale range is part of TileMacCorrection), so on     *)
(* these the uint32_t <-> int32_t conversions are value preserving.  The   *)
(* two packed input words reach 2^32-1 and are kept as two 16-bit halves;  *)
(* the observer's uint64_t values are kept as four 16-bit limbs with       *)
(* borrow/carry, so that wrap-around is computed, not assumed away.        *)
(***************************************************************************)
EXTENDS Integers, Sequences, FiniteSets, TLC

(***************************************************************************)
(* Bounds of the model and constants of the program                        *)
(***************************************************************************)
\* matrix sizes exercised: sub-tile, exact tile, multi-tile with remainder
Dims == {1, 7, 8, 9, 16, 23}
\* sizes drawn for the output layer (the program's is 10)
OutDims == {3, 10}
\* hidden-layer rescale divisors drawn (a positive quantisation divisor)
HDivs == {1, 997}
\* test images per run (bound; the program's table holds 10)
NUM_TEST_IMAGES == 2
\* weight tables drawn: wsel \in 0..MaxWsel
MaxWsel == 1
\* longest score vector drawn for argmax on its own
MaxArgLen == 4
\* cycle budget of the observer's loop (bound; testbench.cpp:36 sets 20000000)
max_cycles == 80
\* lines the device sends in one run
MaxLines == 3
\* the crossbar tile is 8x8 (hello.c:74,76,88,100)
TILE == 8
\* neutral conductance and weight offset (hello.c:78,79,104)
OFFSET == 128
\* iterations of the settle busy-loop (hello.c:97)
SETTLE_ITERS == 10

(***************************************************************************)
(* C integer conversions                                                   *)
(***************************************************************************)
\* (int8_t)x : two's-complement wrap to [-128,127]
ToInt8(x) == ((x + 128) % 256) - 128
\* (uint8_t)x, and the reinterpretation of an int8_t byte as uint8_t
ToUint8(x) == x % 256
\* C integer division truncates toward zero
CDiv(a, b) ==
  LET q == (IF a < 0 THEN -a ELSE a) \div (IF b < 0 THEN -b ELSE b)
  IN IF (a < 0) = (b < 0) THEN q ELSE -q

\* a uint32_t register word as two 16-bit halves
\* (v0) | (v1 << 8) | (v2 << 16) | (v3 << 24): the shifted bytes occupy
\* disjoint bit ranges only while each operand is below 256; a wider operand
\* spills into the next byte, which the or then merges with it.  The sum
\* below equals the or exactly when the operands are bytes, which v[] of
\* type uint8_t guarantees.  (v3 << 24 with v3 >= 128 shifts into the sign
\* bit of int; gcc defines the result as the two's-complement bit pattern.)
PackWord(b0, b1, b2, b3) ==
  [lo |-> (b0 + b1 * 256) % 65536, hi |-> (b2 + b3 * 256) % 65536]

(***************************************************************************)
(* State                                                                   *)
(***************************************************************************)
VARIABLES
  \* ---- hello.c: the tables of mnist_weights_int8.h, fixed for a run
  INPUT_SIZE, HIDDEN_SIZE, OUTPUT_SIZE, H_DIV, wsel,
  \* ---- hello.c: statics (lines 19-21) and main's locals
  hidden_acc, hidden_act, output_acc, d, pred_cpu, pred_imc, printed,
  \* ---- hello.c: control position and the locals of imc_layer_execution
  \*      (layer, rs, cs) and imc_tile_mac (r, c, v, sum_v, dly)
  pc, layer, rs, cs, r, c, v, sum_v, dly,
  \* ---- the accelerator behind the registers 0x400..0x42C
  prog_data, cells, vin_lo, vin_hi,
  \* ---- history of the IMC path: register accesses of the tile operation
  \*      in progress, out[] indices touched, the last corrected read, and
  \*      what infer_cpu left in the shared buffers
  nacc, touched, last, cpu_act, cpu_out,
  \* ---- argmax applied on its own
  arg_a, arg_res, arg_pc,
  \* ---- testbench.cpp: the sampling loop and the report
  cycle, last_uart_write, current_line, markers, report, obs_pc,
  \* ---- the device driving the UART address, cycle by cycle
  tx_line, tx_pos, tx_gap, tx_wait, tx_lines, sent, recv

cfgVars == <<INPUT_SIZE, HIDDEN_SIZE, OUTPUT_SIZE, H_DIV, wsel>>
swVars  == <<hidden_acc, hidden_act, output_acc, d, pred_cpu, pred_imc, printed>>
ctlVars == <<pc, layer, rs, cs, r, c, v, sum_v, dly>>
accVars == <<prog_data, cells, vin_lo, vin_hi>>
hisVars == <<nacc, touched, last, cpu_act, cpu_out>>
argVars == <<arg_a, arg_res, arg_pc>>
obsVars == <<cycle, last_uart_write, current_line, markers, report, obs_pc>>
txVars  == <<tx_line, tx_pos, tx_gap, tx_wait, tx_lines, sent, recv>>
inferVars == <<cfgVars, swVars, ctlVars, accVars, hisVars>>
vars == <<inferVars, argVars, obsVars, txVars>>

(***************************************************************************)
(* The read-only tables of mnist_weights_int8.h.  The header is not part   *)
(* of the sources at hand: the tables are opaque signed-8-bit weights,     *)
(* signed-32-bit biases and unsigned-8-bit pixels (spec, section 6), here  *)
(* generated from the drawn selector so that the extreme bytes -128, 127,  *)
(* 0 and 255 all occur.  Image 0 is all zero, which makes the layer-1      *)
(* pre-activation equal to the bias.                                       *)
(***************************************************************************)
WVals == <<-128, 127, -1, 0, 1, 64>>
BVals == <<-40, 130, 127, 0>>
PVals == <<255, 0, 1, 128>>
w1_int8(i) == WVals[((3 * i + (i \div 4) + wsel) % 6) + 1]
w2_int8(i) == WVals[((5 * i + (i \div 3) + 2 * wsel + 1) % 6) + 1]
b1_int32(i) == BVals[((i + wsel) % 4) + 1]
b2_int32(i) == <<5, -7, 0>>[(i % 3) + 1]
test_images(img, k) ==
  IF img = 0 THEN 0 ELSE PVals[((k * img + (k \div 3)) % 4) + 1]

(***************************************************************************)
(* hello.c, the CPU reference                                              *)
(***************************************************************************)
\* The arrays a pointer argument may designate: W is w1_int8 or w2_int8;
\* inp is test_images[d], hidden_act read as int8_t, or hidden_act read
\* through the cast (const uint8_t*)hidden_act of hello.c:128.
WeightAt(W, i) == IF W = "w1_int8" THEN w1_int8(i) ELSE w2_int8(i)

InputAt(inp, k) ==
  CASE inp = "test_image"    -> test_images(d, k)
    [] inp = "hidden_act"    -> hidden_act[k]
    [] inp = "hidden_act_u8" -> ToUint8(hidden_act[k])

\* one row of cpu_mv_u8 / cpu_mv_i8: acc = 0; for c < cols: acc += W*inp
DotRow(W, inp, row, cols) ==
  LET acc[k \in 0..cols] ==
        IF k = 0 THEN 0
        ELSE acc[k - 1] + WeightAt(W, row * cols + (k - 1)) * InputAt(inp, k - 1)
  IN acc[cols]

cpu_mv_u8(W, inp, rows, cols) ==
  [row \in 0..(rows - 1) |-> DotRow(W, inp, row, cols)]

cpu_mv_i8(W, inp, rows, cols) ==
  [row \in 0..(rows - 1) |-> DotRow(W, inp, row, cols)]

\* argmax keeping the later of two equal scores (a >= in place of >)
argmaxLastOccurrence(a, n) ==
  LET best[i \in 0..n] ==
        IF i <= 1 THEN 0
        ELSE IF a[i - 1] >= a[best[i - 1]] THEN i - 1 ELSE best[i - 1]
  IN best[n]

\* best = 0; for i in 1..n-1: if a[i] > a[best] then best = i
argmax(a, n) ==
  LET best[i \in 0..n] ==
        IF i <= 1 THEN 0
        ELSE IF a[i - 1] > a[best[i - 1]] THEN i - 1 ELSE best[i - 1]
  IN best[n]

\* Activation without its upper clamp: the quotient is narrowed as it is
ActivationNoClamp(acc, bias) ==
  LET v0 == acc + bias
      v1 == IF v0 < 0 THEN 0 ELSE v0
  IN ToInt8(CDiv(v1, H_DIV))

\* Activation without the clip of negative values before the division
ActivationNoRelu(acc, bias) ==
  LET v2 == CDiv(acc + bias, H_DIV)
  IN IF v2 > 127 THEN ToInt8(127) ELSE ToInt8(v2)

\* the shared post-processing of one hidden unit (hello.c:56-59, 122-125)
Activation(acc, bias) ==
  LET v0 == acc + bias
      v1 == IF v0 < 0 THEN 0 ELSE v0
      v2 == CDiv(v1, H_DIV)
  IN IF v2 > 127 THEN ToInt8(127) ELSE ToInt8(v2)

(***************************************************************************)
(* The accelerator behind the register interface.  Its RTL is not part of  *)
(* the sources at hand; it is modelled from the interface description      *)
(* (spec, sections 4.1 and 6): a write to the program address port stores  *)
(* the value last written to the program data port into that cell, the two *)
(* input ports hold four little-endian bytes each, and result port i reads *)
(* back the sum over the 8 columns of conductance[i][c] * input[c].        *)
(***************************************************************************)
DevProgram(cellsv, data, addr) == [cellsv EXCEPT ![addr] = data]

\* byte k (0..7) of the driven input vector
VinByte(k) ==
  LET w == IF k < 4 THEN vin_lo ELSE vin_hi
      h == IF (k % 4) < 2 THEN w.lo ELSE w.hi
  IN IF k % 2 = 0 THEN h % 256 ELSE h \div 256

IMC_RESULT(i) ==
  LET s[k \in 0..TILE] ==
        IF k = 0 THEN 0 ELSE s[k - 1] + cells[i * TILE + (k - 1)] * VinByte(k - 1)
  IN s[TILE]

(***************************************************************************)
(* hello.c, imc_tile_mac and imc_layer_execution                           *)
(***************************************************************************)
\* the arguments of the imc_layer_execution call in progress
\* (hello.c:120 for layer 1, hello.c:128 for layer 2)
Rows == IF layer = 1 THEN HIDDEN_SIZE ELSE OUTPUT_SIZE
Cols == IF layer = 1 THEN INPUT_SIZE ELSE HIDDEN_SIZE
WPtr == IF layer = 1 THEN "w1_int8" ELSE "w2_int8"
InpPtr == IF layer = 1 THEN "test_image" ELSE "hidden_act_u8"
Out == IF layer = 1 THEN hidden_acc ELSE output_acc

\* Conductance padding the cells outside the matrix with 0 instead of 128
ConductancePadZero(w_row, w_col) ==
  IF w_row < Rows /\ w_col < Cols
    THEN WeightAt(WPtr, w_row * Cols + w_col) + OFFSET
    ELSE 0

\* g_val of hello.c:78-79
Conductance(w_row, w_col) ==
  IF w_row < Rows /\ w_col < Cols
    THEN WeightAt(WPtr, w_row * Cols + w_col) + OFFSET
    ELSE OFFSET

\* v[] of hello.c:86-93: zero-filled, then the in-range columns copied
TileInputs(c_start) ==
  [k \in 0..(TILE - 1) |->
     IF c_start + k < Cols THEN InputAt(InpPtr, c_start + k) ELSE 0]

\* sum_v of hello.c:87-93: accumulated only inside the column guard
TileSumV(c_start) ==
  LET s[k \in 0..TILE] ==
        IF k = 0 THEN 0
        ELSE IF c_start + (k - 1) < Cols
               THEN s[k - 1] + TileInputs(c_start)[k - 1]
               ELSE s[k - 1]
  IN s[TILE]

\* TrueMac trusting the raw read-back without the offset correction
TrueMacUncorrected(raw_current, sumv) == raw_current

\* true_mac of hello.c:104
TrueMac(raw_current, sumv) == raw_current - (OFFSET * sumv)

\* whether row r of the tile is read and accumulated (hello.c:102)
RowInBounds(w_row) == w_row < Rows

NoAccess == [prog |-> 0, inp |-> 0, settle |-> 0, read |-> 0]
NoRead == [row |-> -1, rs |-> 0, cs |-> 0, raw |-> 0, sumv |-> 0,
           added |-> 0, before |-> 0]

\* entry of imc_tile_mac(W, rows, cols, inp, out, r_start, c_start)
EnterTile(r_start, c_start) ==
  /\ pc' = "prog"
  /\ rs' = r_start /\ cs' = c_start
  /\ r' = 0 /\ c' = 0
  /\ nacc' = NoAccess

\* hello.c:74-83, one iteration of the inner programming loop
ProgramCell ==
  /\ pc = "prog"
  /\ LET g_val == Conductance(rs + r, cs + c)
     IN /\ prog_data' = g_val
        /\ cells' = DevProgram(cells, g_val, (r * TILE) + c)
  /\ nacc' = [nacc EXCEPT !.prog = @ + 1]
  /\ IF c + 1 < TILE
       THEN c' = c + 1 /\ r' = r /\ pc' = pc
       ELSE /\ c' = 0
            /\ IF r + 1 < TILE THEN r' = r + 1 /\ pc' = pc
                               ELSE r' = 0 /\ pc' = "set_inputs"
  /\ UNCHANGED <<cfgVars, swVars, layer, rs, cs, v, sum_v, dly, vin_lo, vin_hi,
                 touched, last, cpu_act, cpu_out, argVars, obsVars, txVars>>

\* hello.c:86-93
SetInputs ==
  /\ pc = "set_inputs"
  /\ v' = TileInputs(cs)
  /\ sum_v' = TileSumV(cs)
  /\ pc' = "in_lo"
  /\ UNCHANGED <<cfgVars, swVars, layer, rs, cs, r, c, dly, accVars, hisVars,
                 argVars, obsVars, txVars>>

\* hello.c:94
WriteInputLo ==
  /\ pc = "in_lo"
  /\ vin_lo' = PackWord(v[0], v[1], v[2], v[3])
  /\ nacc' = [nacc EXCEPT !.inp = @ + 1]
  /\ pc' = "in_hi"
  /\ UNCHANGED <<cfgVars, swVars, layer, rs, cs, r, c, v, sum_v, dly, prog_data,
                 cells, vin_hi, touched, last, cpu_act, cpu_out, argVars,
                 obsVars, txVars>>

\* hello.c:95
WriteInputHi ==
  /\ pc = "in_hi"
  /\ vin_hi' = PackWord(v[4], v[5], v[6], v[7])
  /\ nacc' = [nacc EXCEPT !.inp = @ + 1]
  /\ dly' = 0
  /\ pc' = "settle"
  /\ UNCHANGED <<cfgVars, swVars, layer, rs, cs, r, c, v, sum_v, prog_data,
                 cells, vin_lo, touched, last, cpu_act, cpu_out, argVars,
                 obsVars, txVars>>

\* SettleStep leaving the busy-loop after its first iteration
SettleStepShort ==
  /\ pc = "settle"
  /\ dly < SETTLE_ITERS
  /\ dly' = dly + 1
  /\ nacc' = [nacc EXCEPT !.settle = @ + 1]
  /\ pc' = "read"
  /\ r' = 0
  /\ UNCHANGED <<cfgVars, swVars, layer, rs, cs, c, v, sum_v, accVars, touched,
                 last, cpu_act, cpu_out, argVars, obsVars, txVars>>

\* hello.c:97, one iteration of for(volatile int d=0; d<10; d++);
SettleStep ==
  /\ pc = "settle"
  /\ dly < SETTLE_ITERS
  /\ dly' = dly + 1
  /\ nacc' = [nacc EXCEPT !.settle = @ + 1]
  /\ pc' = IF dly + 1 < SETTLE_ITERS THEN pc ELSE "read"
  /\ r' = IF dly + 1 < SETTLE_ITERS THEN r ELSE 0
  /\ UNCHANGED <<cfgVars, swVars, layer, rs, cs, c, v, sum_v, accVars, touched,
                 last, cpu_act, cpu_out, argVars, obsVars, txVars>>

\* out[] of the imc_layer_execution call in progress, replaced by o
StoreOut(o) ==
  IF layer = 1 THEN hidden_acc' = o /\ UNCHANGED output_acc
               ELSE output_acc' = o /\ UNCHANGED hidden_acc

\* hello.c:100-107, one iteration of the read-and-correct loop
ReadRow ==
  /\ pc = "read"
  /\ LET w_row == rs + r
     IN IF RowInBounds(w_row)
          THEN LET raw_current == IMC_RESULT(r)
                   true_mac == TrueMac(raw_current, sum_v)
               IN /\ StoreOut([Out EXCEPT ![w_row] = @ + true_mac])
                  /\ nacc' = [nacc EXCEPT !.read = @ + 1]
                  /\ touched' = touched \cup {w_row}
                  /\ last' = [row |-> w_row, rs |-> rs, cs |-> cs,
                              raw |-> raw_current, sumv |-> sum_v,
                              added |-> true_mac, before |-> Out[w_row]]
          ELSE UNCHANGED <<hidden_acc, output_acc, nacc, touched, last>>
  /\ IF r + 1 < TILE THEN r' = r + 1 /\ pc' = pc
                     ELSE r' = 0 /\ pc' = "tile_ret"
  /\ UNCHANGED <<cfgVars, hidden_act, d, pred_cpu, pred_imc, printed, layer,
                 rs, cs, c, v, sum_v, dly, accVars, cpu_act, cpu_out, argVars,
                 obsVars, txVars>>

\* a column band that lies wholly inside the matrix
ColLoopFullTilesOnly(c_start) == c_start + TILE <= Cols

\* the loop conditions cs < cols (hello.c:112) and rs < rows (hello.c:113)
ColLoop(c_start) == c_start < Cols
RowLoop(r_start) == r_start < Rows

\* where the layer continues once its last statement, or a tile, is done
AfterLayer == IF layer = 1 THEN "imc_relu" ELSE "imc_bias"

\* hello.c:111-114, entry of imc_layer_execution up to its first tile
LayerInit ==
  /\ pc = "imc_layer"
  /\ StoreOut([i \in 0..(Rows - 1) |-> 0])
  /\ touched' = {}
  /\ IF ColLoop(0) /\ RowLoop(0)
       THEN EnterTile(0, 0)
       ELSE /\ pc' = AfterLayer
            /\ UNCHANGED <<rs, cs, r, c, nacc>>
  /\ UNCHANGED <<cfgVars, hidden_act, d, pred_cpu, pred_imc, printed, layer,
                 v, sum_v, dly, accVars, last, cpu_act, cpu_out, argVars,
                 obsVars, txVars>>

\* hello.c:112-116, the loop steps rs += 8 and cs += 8 after a tile
LayerNext ==
  /\ pc = "tile_ret"
  /\ IF RowLoop(rs + TILE)
       THEN EnterTile(rs + TILE, cs)
       ELSE IF ColLoop(cs + TILE) /\ RowLoop(0)
              THEN EnterTile(0, cs + TILE)
              ELSE /\ pc' = AfterLayer
                   /\ UNCHANGED <<rs, cs, r, c, nacc>>
  /\ UNCHANGED <<cfgVars, swVars, layer, v, sum_v, dly, accVars, touched, last,
                 cpu_act, cpu_out, argVars, obsVars, txVars>>

(***************************************************************************)
(* hello.c, infer_cpu, infer_imc and main                                  *)
(***************************************************************************)
HiddenIdx == 0..(HIDDEN_SIZE - 1)
OutputIdx == 0..(OUTPUT_SIZE - 1)

\* hello.c:151, the loop head of main; while(1) at hello.c:183 once done
MainLoop ==
  /\ pc = "main"
  /\ pc' = IF d < NUM_TEST_IMAGES THEN "cpu_l1" ELSE "halt"
  /\ UNCHANGED <<cfgVars, swVars, layer, rs, cs, r, c, v, sum_v, dly, accVars,
                 hisVars, argVars, obsVars, txVars>>

\* hello.c:54
CpuLayer1 ==
  /\ pc = "cpu_l1"
  /\ hidden_acc' = cpu_mv_u8("w1_int8", "test_image", HIDDEN_SIZE, INPUT_SIZE)
  /\ pc' = "cpu_relu"
  /\ UNCHANGED <<cfgVars, hidden_act, output_acc, d, pred_cpu, pred_imc, printed,
                 layer, rs, cs, r, c, v, sum_v, dly, accVars, hisVars, argVars,
                 obsVars, txVars>>

\* hello.c:55-60
CpuRelu ==
  /\ pc = "cpu_relu"
  /\ hidden_act' = [i \in HiddenIdx |-> Activation(hidden_acc[i], b1_int32(i))]
  /\ pc' = "cpu_l2"
  /\ UNCHANGED <<cfgVars, hidden_acc, output_acc, d, pred_cpu, pred_imc, printed,
                 layer, rs, cs, r, c, v, sum_v, dly, accVars, hisVars, argVars,
                 obsVars, txVars>>

\* hello.c:62
CpuLayer2 ==
  /\ pc = "cpu_l2"
  /\ output_acc' = cpu_mv_i8("w2_int8", "hidden_act", OUTPUT_SIZE, HIDDEN_SIZE)
  /\ pc' = "cpu_bias"
  /\ UNCHANGED <<cfgVars, hidden_acc, hidden_act, d, pred_cpu, pred_imc, printed,
                 layer, rs, cs, r, c, v, sum_v, dly, accVars, hisVars, argVars,
                 obsVars, txVars>>

\* hello.c:63-65
CpuBias ==
  /\ pc = "cpu_bias"
  /\ output_acc' = [i \in OutputIdx |-> output_acc[i] + b2_int32(i)]
  /\ pc' = "cpu_argmax"
  /\ UNCHANGED <<cfgVars, hidden_acc, hidden_act, d, pred_cpu, pred_imc, printed,
                 layer, rs, cs, r, c, v, sum_v, dly, accVars, hisVars, argVars,
                 obsVars, txVars>>

\* hello.c:66 and the return to hello.c:156-161; cpu_act and cpu_out keep
\* what infer_cpu left in the buffers infer_imc is about to overwrite
CpuArgmax ==
  /\ pc = "cpu_argmax"
  /\ pred_cpu' = argmax(output_acc, OUTPUT_SIZE)
  /\ cpu_act' = hidden_act
  /\ cpu_out' = output_acc
  /\ layer' = 1
  /\ pc' = "imc_layer"
  /\ UNCHANGED <<cfgVars, hidden_acc, hidden_act, output_acc, d, pred_imc,
                 printed, rs, cs, r, c, v, sum_v, dly, accVars, nacc, touched,
                 last, argVars, obsVars, txVars>>

\* hello.c:121-126, then the call of hello.c:128
ImcRelu ==
  /\ pc = "imc_relu"
  /\ hidden_act' = [i \in HiddenIdx |-> Activation(hidden_acc[i], b1_int32(i))]
  /\ layer' = 2
  /\ pc' = "imc_layer"
  /\ UNCHANGED <<cfgVars, hidden_acc, output_acc, d, pred_cpu, pred_imc, printed,
                 rs, cs, r, c, v, sum_v, dly, accVars, hisVars, argVars, obsVars,
                 txVars>>

\* hello.c:129-131
ImcBias ==
  /\ pc = "imc_bias"
  /\ output_acc' = [i \in OutputIdx |-> output_acc[i] + b2_int32(i)]
  /\ pc' = "imc_argmax"
  /\ UNCHANGED <<cfgVars, hidden_acc, hidden_act, d, pred_cpu, pred_imc, printed,
                 layer, rs, cs, r, c, v, sum_v, dly, accVars, hisVars, argVars,
                 obsVars, txVars>>

\* hello.c:132
ImcArgmax ==
  /\ pc = "imc_argmax"
  /\ pred_imc' = argmax(output_acc, OUTPUT_SIZE)
  /\ pc' = "print_row"
  /\ UNCHANGED <<cfgVars, hidden_acc, hidden_act, output_acc, d, pred_cpu,
                 printed, layer, rs, cs, r, c, v, sum_v, dly, accVars, hisVars,
                 argVars, obsVars, txVars>>

\* hello.c:170-172 and d++ of hello.c:151: the Match? column of the row
PrintRow ==
  /\ pc = "print_row"
  /\ printed' = Append(printed, IF pred_cpu = pred_imc THEN "YES" ELSE "NO")
  /\ d' = d + 1
  /\ pc' = "main"
  /\ UNCHANGED <<cfgVars, hidden_acc, hidden_act, output_acc, pred_cpu, pred_imc,
                 layer, rs, cs, r, c, v, sum_v, dly, accVars, hisVars, argVars,
                 obsVars, txVars>>

ZeroWord == [lo |-> 0, hi |-> 0]

\* the variables of the specifications that are not running
ArgIdle == arg_a = <<>> /\ arg_res = 0 /\ arg_pc = "off"
ObsIdle ==
  /\ cycle = 0 /\ last_uart_write = FALSE /\ current_line = <<>>
  /\ markers = <<>> /\ report = <<>> /\ obs_pc = "off"
  /\ tx_line = <<>> /\ tx_pos = 0 /\ tx_gap = 0 /\ tx_wait = 0 /\ tx_lines = 0
  /\ sent = <<>> /\ recv = <<>>
InferIdle ==
  /\ INPUT_SIZE = 1 /\ HIDDEN_SIZE = 1 /\ OUTPUT_SIZE = 1 /\ H_DIV = 1 /\ wsel = 0
  /\ hidden_acc = <<>> /\ hidden_act = <<>> /\ output_acc = <<>>
  /\ d = 0 /\ pred_cpu = 0 /\ pred_imc = 0 /\ printed = <<>>
  /\ pc = "off" /\ layer = 1 /\ rs = 0 /\ cs = 0 /\ r = 0 /\ c = 0
  /\ v = <<>> /\ sum_v = 0 /\ dly = 0
  /\ prog_data = 0 /\ cells = <<>> /\ vin_lo = ZeroWord /\ vin_hi = ZeroWord
  /\ nacc = NoAccess /\ touched = {} /\ last = NoRead
  /\ cpu_act = <<>> /\ cpu_out = <<>>

\* main() entered: statics zeroed by the C runtime, the accelerator reset,
\* the tables of the header drawn
Init ==
  /\ INPUT_SIZE \in Dims /\ HIDDEN_SIZE \in Dims /\ OUTPUT_SIZE \in OutDims
  /\ H_DIV \in HDivs /\ wsel \in 0..MaxWsel
  /\ hidden_acc = [i \in HiddenIdx |-> 0]
  /\ hidden_act = [i \in HiddenIdx |-> 0]
  /\ output_acc = [i \in OutputIdx |-> 0]
  /\ d = 0 /\ pred_cpu = 0 /\ pred_imc = 0 /\ printed = <<>>
  /\ pc = "main" /\ layer = 1 /\ rs = 0 /\ cs = 0 /\ r = 0 /\ c = 0
  /\ v = [k \in 0..(TILE - 1) |-> 0] /\ sum_v = 0 /\ dly = 0
  /\ prog_data = 0 /\ cells = [a \in 0..(TILE * TILE - 1) |-> 0]
  /\ vin_lo = ZeroWord /\ vin_hi = ZeroWord
  /\ nacc = NoAccess /\ touched = {} /\ last = NoRead
  /\ cpu_act = [i \in HiddenIdx |-> 0] /\ cpu_out = [i \in OutputIdx |-> 0]
  /\ ArgIdle /\ ObsIdle

Next ==
  \/ MainLoop \/ CpuLayer1 \/ CpuRelu \/ CpuLayer2 \/ CpuBias \/ CpuArgmax
  \/ LayerInit \/ ProgramCell \/ SetInputs \/ WriteInputLo \/ WriteInputHi
  \/ SettleStep \/ ReadRow \/ LayerNext
  \/ ImcRelu \/ ImcBias \/ ImcArgmax \/ PrintRow

Spec == Init /\ [][Next]_vars

(***************************************************************************)
(* Properties of the inference run (specification Spec)                    *)
(***************************************************************************)
RECURSIVE SumFun(_)
\* the sum of the values of a function with a finite domain
SumFun(f) ==
  IF DOMAIN f = {} THEN 0
  ELSE LET x == CHOOSE y \in DOMAIN f : TRUE
       IN f[x] + SumFun([y \in (DOMAIN f) \ {x} |-> f[y]])

TileCols == 0..(TILE - 1)
InCols(c_start) == {k \in TileCols : c_start + k < Cols}
OutCols(c_start) == {k \in TileCols : c_start + k >= Cols}

\* the signed dot product of row w_row with the input, over the columns of
\* the band starting at c_start that lie inside the matrix
BandDot(w_row, c_start) ==
  SumFun([k \in InCols(c_start) |->
            WeightAt(WPtr, w_row * Cols + c_start + k) * InputAt(InpPtr, c_start + k)])

\* C1: when imc_layer_execution(W, inp, out, R, C) has completed, out[r]
\* equals the direct dot product of cpu_mv_u8 for every row r, for layer 1
\* (R = HIDDEN_SIZE, C = INPUT_SIZE, each over Dims) and for layer 2
\* (R = OUTPUT_SIZE, C = HIDDEN_SIZE).
LayerEqualsDirect ==
  /\ pc = "imc_relu" =>
       hidden_acc = cpu_mv_u8("w1_int8", "test_image", HIDDEN_SIZE, INPUT_SIZE)
  /\ pc = "imc_bias" =>
       output_acc = cpu_mv_u8("w2_int8", "hidden_act_u8", OUTPUT_SIZE, HIDDEN_SIZE)

\* a 23x23 layer (multi-tile with remainder) has completed on a non-zero
\* image with a non-zero, partly negative result
LayerEqualsDirectWitness ==
  /\ pc = "imc_relu" /\ HIDDEN_SIZE = 23 /\ INPUT_SIZE = 23 /\ d = 1
  /\ \E i \in HiddenIdx : hidden_acc[i] < 0
  /\ \E i \in HiddenIdx : hidden_acc[i] > 0

\* C3: for every in-bounds row of a tile, the value added to out[r] is
\* raw[r] - 128 * sum_v with sum_v the sum of the 8 driven (zero-padded)
\* input bytes; it equals the signed dot product of the tile's in-bounds
\* weights and inputs; raw, 128 * sum_v and the difference stay within the
\* tile-scale range, far inside signed 32 bits.
TileMacCorrection ==
  (pc \in {"read", "tile_ret"} /\ nacc.read > 0) =>
    LET driven == SumFun([k \in TileCols |-> VinByte(k)])
    IN /\ last.raw = IMC_RESULT(last.row - rs)
       /\ last.added = last.raw - 128 * driven
       /\ driven = SumFun([k \in InCols(cs) |-> InputAt(InpPtr, cs + k)])
       /\ last.added = BandDot(last.row, cs)
       /\ Out[last.row] = last.before + last.added
       /\ last.raw \in 0..(TILE * 255 * 255)
       /\ 128 * driven \in 0..(TILE * 128 * 255)
       /\ last.added \in (-(TILE * 128 * 255))..(TILE * 127 * 255)

\* a corrected read of a partly filled band whose result is negative and
\* whose padded input sum is non-zero
TileMacCorrectionWitness ==
  /\ pc = "read" /\ nacc.read > 0 /\ layer = 1
  /\ INPUT_SIZE = 9 /\ cs = 8
  /\ last.sumv > 0 /\ last.added < 0 /\ last.raw > 0

\* control is inside imc_tile_mac (or at its return)
InTile == pc \in {"prog", "set_inputs", "in_lo", "in_hi", "settle", "read", "tile_ret"}

\* C4: cells of a tile outside the matrix contribute 0 to every output
\* row: they are programmed with conductance 128, the input positions
\* outside the matrix are driven as 0 and left out of sum_v, and
\* imc_tile_mac touches no out[i] with i >= R.
TilePadding ==
  /\ (InTile /\ nacc.prog = TILE * TILE) =>
       \A tr \in TileCols, tc \in TileCols :
         (rs + tr >= Rows \/ cs + tc >= Cols) => cells[tr * TILE + tc] = 128
  /\ (InTile /\ nacc.inp = 2) =>
       /\ \A k \in OutCols(cs) : VinByte(k) = 0
       /\ sum_v = SumFun([k \in InCols(cs) |-> VinByte(k)])
       /\ \A tr \in TileCols :
            rs + tr < Rows =>
              /\ SumFun([k \in OutCols(cs) |-> cells[tr * TILE + k] * VinByte(k)]) = 0
              /\ IMC_RESULT(tr) - 128 * sum_v = BandDot(rs + tr, cs)
  /\ InTile => touched \subseteq 0..(Rows - 1)

\* the corner tile of a 23x23 layer: rows and columns 23 of the tile grid
\* are outside, the inputs are non-zero, and the last row has been skipped
TilePaddingWitness ==
  /\ pc = "tile_ret" /\ layer = 1 /\ HIDDEN_SIZE = 23 /\ INPUT_SIZE = 23
  /\ rs = 16 /\ cs = 16 /\ d = 1 /\ sum_v > 0
  /\ nacc.read = 7 /\ touched = 0..22

\* C6: within a tile operation the register accesses are ordered
\* program -> drive-input -> settle -> read: the 64 programming writes
\* precede the input-port writes, the settle loop runs its 10 iterations
\* after the second input-port write, and no result port is read before;
\* the counters restart at the entry of imc_tile_mac, so a read can never
\* follow a write of the next tile operation: every read made so far in
\* the operation in progress is a read of its own tile.
TileAccessOrder ==
  /\ nacc.prog <= TILE * TILE /\ nacc.inp <= 2
  /\ nacc.settle <= SETTLE_ITERS /\ nacc.read <= TILE
  /\ nacc.inp > 0 => nacc.prog = TILE * TILE
  /\ nacc.settle > 0 => nacc.inp = 2
  /\ nacc.read > 0 => nacc.settle = SETTLE_ITERS
  /\ (InTile /\ nacc.read > 0) => (last.rs = rs /\ last.cs = cs)

\* the second tile operation of a layer has read all of its 8 rows
TileAccessOrderWitness ==
  /\ pc = "tile_ret" /\ rs = 8 /\ nacc.read = TILE
  /\ nacc.prog = TILE * TILE /\ nacc.inp = 2 /\ nacc.settle = SETTLE_ITERS

Min(a, b) == IF a < b THEN a ELSE b
Max(a, b) == IF a > b THEN a ELSE b

\* C8: in both strategies the stored activation of hidden unit i is
\* min(127, max(acc[i] + bias[i], 0) / H_DIV), and lies in [0, 127].
ActivationClamp ==
  (pc = "cpu_l2" \/ (pc = "imc_layer" /\ layer = 2)) =>
    \A i \in HiddenIdx :
      /\ hidden_act[i] = Min(127, Max(hidden_acc[i] + b1_int32(i), 0) \div H_DIV)
      /\ hidden_act[i] \in 0..127

\* the IMC strategy has stored 0 for a pre-activation of -40, 127 for a
\* quotient of 130 and 127 for a quotient of exactly 127
ActivationClampWitness ==
  /\ pc = "imc_layer" /\ layer = 2 /\ H_DIV = 1
  /\ \E i \in HiddenIdx : hidden_acc[i] + b1_int32(i) = -40 /\ hidden_act[i] = 0
  /\ \E i \in HiddenIdx : hidden_acc[i] + b1_int32(i) = 130 /\ hidden_act[i] = 127
  /\ \E i \in HiddenIdx : hidden_acc[i] + b1_int32(i) = 127 /\ hidden_act[i] = 127

\* C2: infer_cpu and infer_imc return the same class for every image, with
\* the same hidden activations and the same output scores.
InferenceAgrees ==
  /\ pc = "print_row" =>
       /\ pred_cpu = pred_imc
       /\ hidden_act = cpu_act
       /\ output_acc = cpu_out
  /\ \A i \in 1..Len(printed) : printed[i] = "YES"

\* both strategies have finished a non-zero image whose hidden activations
\* include values strictly between the clamps, and picked a class other
\* than 0
InferenceAgreesWitness ==
  /\ pc = "print_row" /\ d = 1 /\ OUTPUT_SIZE = 10 /\ HIDDEN_SIZE = 23
  /\ \E i \in HiddenIdx : hidden_act[i] \in 1..126
  /\ pred_imc # 0 /\ pred_cpu = pred_imc

(***************************************************************************)
(* argmax applied to drawn score vectors (specification SpecArgmax)        *)
(***************************************************************************)
ArgVals == {-4, 1, 2, 3, 5, 9}
ArgVectors == UNION {[0..(n - 1) -> ArgVals] : n \in 1..MaxArgLen}

InitArgmax ==
  /\ arg_a \in ArgVectors /\ arg_res = 0 /\ arg_pc = "call"
  /\ InferIdle /\ ObsIdle

\* a call argmax(a, n) on the drawn vector
ArgmaxCall ==
  /\ arg_pc = "call"
  /\ arg_res' = argmax(arg_a, Cardinality(DOMAIN arg_a))
  /\ arg_pc' = "done"
  /\ UNCHANGED <<arg_a, inferVars, obsVars, txVars>>

NextArgmax == ArgmaxCall

SpecArgmax == InitArgmax /\ [][NextArgmax]_vars

\* C7: for every non-empty score vector, argmax returns the lowest index
\* holding the maximum (first-occurrence tie-break).
ArgmaxFirstMax ==
  arg_pc = "done" =>
    /\ arg_res \in DOMAIN arg_a
    /\ \A j \in DOMAIN arg_a : arg_a[j] <= arg_a[arg_res]
    /\ \A j \in DOMAIN arg_a : j < arg_res => arg_a[j] < arg_a[arg_res]
    /\ argmax([i \in 0..2 |-> <<5, 5, 3>>[i + 1]], 3) = 0
    /\ argmax([i \in 0..3 |-> <<1, 9, 9, 2>>[i + 1]], 4) = 1

\* argmax has returned 1 for the tied vector [1,9,9,2]
ArgmaxFirstMaxWitness ==
  /\ arg_pc = "done"
  /\ arg_a = [i \in 0..3 |-> <<1, 9, 9, 2>>[i + 1]]
  /\ arg_res = 1

(***************************************************************************)
(* testbench.cpp: the observer, and the device's stores to the UART        *)
(* address (specification SpecObserver)                                    *)
(***************************************************************************)
\* std::string as a sequence of one-character strings
NL == "\n"
StartTag == <<"@", "@", "S", "T", "A", "R", "T", "_">>
EndTag == <<"@", "@", "E", "N", "D", "_">>
StartPrefix == <<"S", "T", "A", "R", "T", "_">>
EndPrefix == <<"E", "N", "D", "_">>
PREPARE == <<"P", "R", "E", "P", "A", "R", "E">>
LAYER1 == <<"L", "A", "Y", "E", "R", "1">>
RELU == <<"R", "E", "L", "U">>
LAYER2 == <<"L", "A", "Y", "E", "R", "2">>
ARGMAX == <<"A", "R", "G", "M", "A", "X">>
TOTAL == <<"T", "O", "T", "A", "L">>
\* the phases calc_diff is called for, in order (testbench.cpp:95-103)
Phases == <<PREPARE, LAYER1, RELU, LAYER2, ARGMAX, TOTAL>>

\* std::string::npos
npos == -1

\* s.find(pat): the lowest 0-based position at which pat occurs, or npos
Find(str, pat) ==
  LET hits == {i \in 0..(Len(str) - Len(pat)) :
                 \A j \in 1..Len(pat) : str[i + j] = pat[j]}
  IN IF hits = {} THEN npos
     ELSE CHOOSE i \in hits : \A k \in hits : i <= k

\* s.substr(pos)
Substr(str, pos) == SubSeq(str, pos + 1, Len(str))
\* s.substr(0, n), where n may be npos
SubstrTo(str, n) == IF n = npos THEN str ELSE SubSeq(str, 1, n)

\* uint64_t as four 16-bit limbs, least significant first
U64(n) == <<n % 65536, (n \div 65536) % 65536, 0, 0>>
U64Zero == <<0, 0, 0, 0>>

\* a - b on uint64_t: limb-wise with borrow, the final borrow discarded
U64Sub(a, b) ==
  LET bw[i \in 0..4] ==
        IF i = 0 THEN 0
        ELSE IF a[i] - b[i] - bw[i - 1] < 0 THEN 1 ELSE 0
  IN [i \in 1..4 |-> (a[i] - b[i] - bw[i - 1] + 65536) % 65536]

\* a + b on uint64_t: limb-wise with carry, the final carry discarded
U64Add(a, b) ==
  LET cy[i \in 0..4] ==
        IF i = 0 THEN 0
        ELSE IF a[i] + b[i] + cy[i - 1] >= 65536 THEN 1 ELSE 0
  IN [i \in 1..4 |-> (a[i] + b[i] + cy[i - 1]) % 65536]

\* markers[key] = value on the std::map (insert or overwrite)
MapPut(m, key, value) == [k \in (DOMAIN m) \cup {key} |-> IF k = key THEN value ELSE m[k]]
EmptyMap == [k \in {} |-> 0]

\* testbench.cpp:57-71: the marker scan of a line that ends in '\n'
ScanLine(m, line, cyc) ==
  IF Find(line, StartTag) # npos
    THEN LET pos == Find(line, StartTag)
             tail == Substr(line, pos + 8)
             marker == SubstrTo(tail, Find(tail, <<NL>>))
         IN MapPut(m, StartPrefix \o marker, cyc)
    ELSE IF Find(line, EndTag) # npos
           THEN LET pos == Find(line, EndTag)
                    tail == Substr(line, pos + 6)
                    marker == SubstrTo(tail, Find(tail, <<NL>>))
                IN MapPut(m, EndPrefix \o marker, cyc)
           ELSE m

\* calc_diff with the subtraction reversed
calc_diffReversed(m, start_key, end_key) ==
  IF start_key \in DOMAIN m /\ end_key \in DOMAIN m
    THEN [measured |-> TRUE, value |-> U64Sub(U64(m[start_key]), U64(m[end_key]))]
    ELSE [measured |-> FALSE, value |-> U64Zero]

\* testbench.cpp:86-93: the difference is printed and returned when both
\* keys are in the map, and 0 is returned, nothing printed, otherwise
calc_diff(m, start_key, end_key) ==
  IF start_key \in DOMAIN m /\ end_key \in DOMAIN m
    THEN [measured |-> TRUE, value |-> U64Sub(U64(m[end_key]), U64(m[start_key]))]
    ELSE [measured |-> FALSE, value |-> U64Zero]

\* testbench.cpp:52: a byte is taken on a rising edge of uart_write
Sampled(uart_write) == uart_write /\ ~last_uart_write

\* testbench.cpp:43-76: one iteration of the sampling loop, the bus showing
\* uart_write and, when it is set, the byte wdata
ClockCycle(uart_write, wdata) ==
  /\ obs_pc = "loop"
  /\ cycle < max_cycles
  /\ IF Sampled(uart_write)
       THEN /\ recv' = Append(recv, wdata)
            /\ IF wdata = NL
                 THEN /\ markers' = ScanLine(markers, Append(current_line, wdata), cycle)
                      /\ current_line' = <<>>
                 ELSE /\ current_line' = Append(current_line, wdata)
                      /\ UNCHANGED markers
       ELSE UNCHANGED <<recv, current_line, markers>>
  /\ last_uart_write' = uart_write
  /\ cycle' = cycle + 1
  /\ UNCHANGED <<report, obs_pc>>

\* the lines the device may print
DeviceLines ==
  { StartTag \o RELU \o <<NL>>,
    EndTag \o RELU \o <<NL>>,
    <<"#">> \o EndTag \o TOTAL \o <<NL>>,
    <<"o", "k", NL>> }
\* idle cycles between two stores of one _write call: 0 is a store in each
\* of two consecutive cycles
Gaps == {0, 1}

\* syscalls.c:30-34: _write entered with a line; its stores follow
StartLine ==
  /\ obs_pc = "loop"
  /\ tx_pos = Len(tx_line)
  /\ tx_lines < MaxLines
  /\ tx_line' \in DeviceLines
  /\ tx_gap' \in Gaps
  /\ tx_wait' = tx_gap'
  /\ tx_pos' = 0
  /\ tx_lines' = tx_lines + 1
  /\ UNCHANGED <<sent, recv, obsVars, inferVars, argVars>>

\* syscalls.c:32: a store of the next byte to UART_ADDR, seen by the
\* observer in this cycle
WriteCycle ==
  /\ tx_wait = 0
  /\ tx_pos < Len(tx_line)
  /\ ClockCycle(TRUE, tx_line[tx_pos + 1])
  /\ sent' = Append(sent, tx_line[tx_pos + 1])
  /\ tx_pos' = tx_pos + 1
  /\ tx_wait' = tx_gap
  /\ UNCHANGED <<tx_line, tx_gap, tx_lines, inferVars, argVars>>

\* a cycle in which the device does not address the UART
IdleCycle ==
  /\ tx_wait > 0 \/ (tx_pos = Len(tx_line) /\ tx_lines = MaxLines)
  /\ ClockCycle(FALSE, NL)
  /\ tx_wait' = IF tx_wait > 0 THEN tx_wait - 1 ELSE 0
  /\ UNCHANGED <<tx_line, tx_pos, tx_gap, tx_lines, sent, inferVars, argVars>>

\* testbench.cpp:78-108: the loop has ended; the six calc_diff calls
Report ==
  /\ obs_pc = "loop"
  /\ ~(cycle < max_cycles)
  /\ report' = [i \in 1..Len(Phases) |->
                  calc_diff(markers, StartPrefix \o Phases[i], EndPrefix \o Phases[i])]
  /\ obs_pc' = "done"
  /\ UNCHANGED <<cycle, last_uart_write, current_line, markers, txVars,
                 inferVars, argVars>>

\* testbench.cpp:36-41
InitObserver ==
  /\ cycle = 0 /\ last_uart_write = FALSE /\ current_line = <<>>
  /\ markers = EmptyMap /\ report = <<>> /\ obs_pc = "loop"
  /\ tx_line = <<>> /\ tx_pos = 0 /\ tx_gap = 0 /\ tx_wait = 0 /\ tx_lines = 0
  /\ sent = <<>> /\ recv = <<>>
  /\ InferIdle /\ ArgIdle

NextObserver == StartLine \/ WriteCycle \/ IdleCycle \/ Report

SpecObserver == InitObserver /\ [][NextObserver]_vars

(***************************************************************************)
(* Properties of the observer (specification SpecObserver)                 *)
(***************************************************************************)
StartKey(i) == StartPrefix \o Phases[i]
EndKey(i) == EndPrefix \o Phases[i]

\* the markers of a stream with @@START_LAYER1 completed at cycle 100 and
\* @@END_LAYER1 at cycle 340, and of the same stream without its END line
ExampleBoth ==
  ScanLine(ScanLine(EmptyMap, StartTag \o LAYER1 \o <<NL>>, 100),
           EndTag \o LAYER1 \o <<NL>>, 340)
ExampleStartOnly == ScanLine(EmptyMap, StartTag \o LAYER1 \o <<NL>>, 100)

\* C5: after the run, each of the six phases is reported with the uint64
\* difference END - START when both of its markers were recorded, and as
\* unmeasured with value 0 when either is missing; all six calls complete.
\* START at 100 and END at 340 give 240.
PhaseReport ==
  /\ obs_pc = "done" =>
       /\ Len(report) = Len(Phases)
       /\ \A i \in 1..Len(Phases) :
            LET both == StartKey(i) \in DOMAIN markers /\ EndKey(i) \in DOMAIN markers
            IN /\ report[i].measured = both
               /\ both =>
                    /\ U64Add(report[i].value, U64(markers[StartKey(i)]))
                         = U64(markers[EndKey(i)])
                    /\ markers[EndKey(i)] >= markers[StartKey(i)] =>
                         report[i].value[1] = markers[EndKey(i)] - markers[StartKey(i)]
               /\ ~both => report[i].value = U64Zero
  /\ obs_pc = "done" =>
       /\ calc_diff(ExampleBoth, StartPrefix \o LAYER1, EndPrefix \o LAYER1)
            = [measured |-> TRUE, value |-> <<240, 0, 0, 0>>]
       /\ calc_diff(ExampleStartOnly, StartPrefix \o LAYER1, EndPrefix \o LAYER1)
            = [measured |-> FALSE, value |-> U64Zero]

\* the report is out: RELU measured from a START line followed by an END
\* line, TOTAL unmeasured although its END marker was recorded, and the
\* other phases unmeasured with no marker at all
PhaseReportWitness ==
  /\ obs_pc = "done"
  /\ report[3].measured
  /\ markers[EndKey(3)] > markers[StartKey(3)]
  /\ report[3].value = U64(markers[EndKey(3)] - markers[StartKey(3)])
  /\ EndKey(6) \in DOMAIN markers /\ ~report[6].measured
  /\ ~report[1].measured

\* C9: the observer appends every byte the device writes to the UART
\* address exactly once and in the order written.
ChannelLossless == recv = sent

\* C10: for every phase reported as measured the recorded END cycle is at
\* least the recorded START cycle, so the uint64 difference does not wrap.
MeasuredNeverWraps ==
  obs_pc = "done" =>
    \A i \in 1..Len(Phases) :
      report[i].measured =>
        /\ markers[EndKey(i)] >= markers[StartKey(i)]
        /\ report[i].value[3] = 0 /\ report[i].value[4] = 0

====
